---- MODULE Spec2Model ----
(***************************************************************************)
(* InputAddress (react-components): the option-resolution logic of the     *)
(* address selection control: state derivation from props, the persisted   *)
(* "last value" preference, the filtered bucket, the active value and the  *)
(* rendered options, and the change / search callbacks.                    *)
(*                                                                         *)
(* JavaScript strings are sequences of one-character strings, so that      *)
(* trim, toLowerCase and includes are computed as the code computes them.  *)
(* null and undefined are the two one-element sequences Null and Undefined *)
(* (their element is no character, so they are no string a user can type). *)
(***************************************************************************)
EXTENDS Integers, Sequences, FiniteSets, TLC

\* ------------------------------------------------------------------ bounds
MaxBucket == 3    \* longest option bucket of the registry snapshot
MaxOptions == 3   \* longest explicit option list / search input
MaxMulti == 3     \* longest multi-select value

\* -------------------------------------------------------------- JS values
Null == <<"null">>
Undefined == <<"undefined">>
Empty == <<>>

Truthy(v) == v # Null /\ v # Undefined /\ v # Empty

\* a || b
OrElse(a, b) == IF Truthy(a) THEN a ELSE b

Range(s) == {s[i] : i \in 1..Len(s)}

SeqsUpTo(S, n) == UNION {[1..k -> S] : k \in 0..n}

\* ----------------------------------------------------------------- strings
Lower(c) ==
  CASE c = "A" -> "a"
    [] c = "B" -> "b"
    [] c = "C" -> "c"
    [] OTHER -> c

toLowerCase(s) == [i \in 1..Len(s) |-> Lower(s[i])]

includes(s, sub) ==
  \E i \in 0..(Len(s) - Len(sub)) : SubSeq(s, i + 1, i + Len(sub)) = sub

RECURSIVE trimStart(_)
trimStart(s) ==
  IF s # <<>> /\ Head(s) = " " THEN trimStart(Tail(s)) ELSE s

RECURSIVE trimEnd(_)
trimEnd(s) ==
  IF s # <<>> /\ s[Len(s)] = " " THEN trimEnd(SubSeq(s, 1, Len(s) - 1)) ELSE s

trim(s) == trimEnd(trimStart(s))

\* --------------------------------------------------------------- addresses
\* Account ids of the model's chain; an address string is the encoding of one.
AccountIds == {"A", "B", "C"}

\* The canonical encoding of an account id (keyring.encodeAddress).
encodeAddress(id) == <<"5", id>>

AddrA == encodeAddress("A")
AddrB == encodeAddress("B")
AddrC == encodeAddress("C")
\* the hex form of account C: a valid, non-canonical spelling of AddrC
HexC == <<"0", "x", "C">>
\* a string that decodes to no account
BadAddr == <<"5", "z">>

\* decodeAddress: the account id a string spells, in canonical or in hex form;
\* "" when it spells none (the library raises there).
decodeAddress(s) ==
  IF Len(s) = 2 /\ s[1] = "5" /\ s[2] \in AccountIds THEN s[2]
  ELSE IF Len(s) = 3 /\ s[1] = "0" /\ s[2] = "x" /\ s[3] \in AccountIds THEN s[3]
  ELSE ""

\* isAddress of @polkadot/util-crypto: the string decodes.
isAddress(s) == decodeAddress(s) # ""

\* toAddress of ../util: the canonical address of value, undefined when value
\* is absent or malformed (it never raises).
toAddress(value) ==
  IF ~Truthy(value) \/ decodeAddress(value) = "" THEN Undefined
  ELSE encodeAddress(decodeAddress(value))

\* transformToAddress: toAddress(value) || null, any exception giving null.
transformToAddress(value) ==
  OrElse(toAddress(value), Null)

\* transformToAccountId
transformToAccountId(value) ==
  IF ~Truthy(value) THEN Null
  ELSE LET accountId == transformToAddress(value)
       IN IF ~Truthy(accountId) THEN Null ELSE accountId

\* ----------------------------------------------------------------- options
\* The display name the registry holds for an address (pair.meta.name).
KeyringName(address) ==
  CASE address = AddrA -> <<"A", "l">>
    [] address = AddrB -> <<"b", "o">>
    [] OTHER -> Undefined

\* createOptionItem of @polkadot/ui-keyring: key and value are the address,
\* the name defaults to the address.
createOptionItem(address, name) ==
  [key |-> address, value |-> address,
   name |-> IF name = Undefined THEN address ELSE name]

\* createItem keeps key, name and value of the option (it adds the text node).
createItem(option) == option

\* createOption: the synthesized option of an address.
createOption(address) ==
  createItem(createOptionItem(address, KeyringName(address)))

\* A section header of the registry: no address.
Header == [key |-> <<"h">>, value |-> Null, name |-> <<"A", "c">>]

\* dedupe with a plausible slip: a later entry replaces the kept one.
RECURSIVE dedupeLastFrom(_, _, _)
dedupeLastFrom(options, index, all) ==
  IF index > Len(options) THEN all
  ELSE LET o == options[index]
           hasDupe == \E eindex \in 1..Len(all) : all[eindex].key = o.key
       IN dedupeLastFrom(options, index + 1,
            IF hasDupe
              THEN [e \in 1..Len(all) |->
                      IF all[e].key = o.key THEN o ELSE all[e]]
              ELSE Append(all, o))

dedupeKeepsLast(options) == dedupeLastFrom(options, 1, <<>>)

\* The reduce of dedupe: all is the accumulator, index the position in options.
RECURSIVE dedupeFrom(_, _, _)
dedupeFrom(options, index, all) ==
  IF index > Len(options) THEN all
  ELSE LET o == options[index]
           hasDupe == \E eindex \in 1..Len(all) :
                         eindex # index /\ all[eindex].key = o.key
       IN dedupeFrom(options, index + 1,
                     IF hasDupe THEN all ELSE Append(all, o))

dedupe(options) == dedupeFrom(options, 1, <<>>)

\* ------------------------------------------------------------------- state
VARIABLES
  props,    \* the props the parent last handed to the component
  state,    \* the component state: [lastValue, value]
  store,    \* the content of the browser store under STORAGE_KEY
  recent,   \* the addresses the registry holds as recent (keyring.saveRecent)
  out       \* what the last operation handed to its caller

vars == <<props, state, store, recent, out>>

DEFAULT_TYPE == "all"

\* The type prop: "undefined" when the parent gives none.
TypeProps == {"undefined", "allPlus"}
TypeTags == {DEFAULT_TYPE, "allPlus"}

\* type = DEFAULT_TYPE as a parameter or destructuring default
TypeOrDefault(type) == IF type = "undefined" THEN DEFAULT_TYPE ELSE type

\* A prop that holds an array or nothing is [given, ...], so that an absent
\* array and an empty one differ as they do in the code (!filter is false
\* for []).
NoFilter == [given |-> FALSE, values |-> <<>>]
NoOptions == [given |-> FALSE, list |-> <<>>]
NoValue == [arr |-> FALSE, val |-> Undefined]

\* ------------------------------------------------------------------- store
\* store.get(STORAGE_KEY): nothing stored, a { defaults } structure, or a
\* stored structure without the defaults mapping. defaults maps every type
\* tag to an address string, Undefined for a missing key.
NoDefaults == [t \in TypeTags |-> Undefined]
StoreAbsent == [kind |-> "absent", defaults |-> NoDefaults]
StoreMalformed == [kind |-> "nodefaults", defaults |-> NoDefaults]

\* readOptions: store.get(STORAGE_KEY) || { defaults: {} }
readOptions ==
  IF store.kind = "absent" THEN [kind |-> "ok", defaults |-> NoDefaults]
  ELSE store

\* options.defaults[...] raises a TypeError when options has no defaults.
defaultsRaises == readOptions.kind = "nodefaults"

\* getLastValue, where it does not raise
getLastValue(type) == readOptions.defaults[TypeOrDefault(type)]

\* setLastValue with the write left out: a plausible slip
setLastValueNoWrite(type, value) == readOptions

\* setLastValue that ignores the type tag it is given: a plausible slip
setLastValueDefaultTag(type, value) ==
  [readOptions EXCEPT !.defaults[DEFAULT_TYPE] = value]

\* setLastValue, where it does not raise: the structure store.set writes
setLastValue(type, value) ==
  [readOptions EXCEPT !.defaults[TypeOrDefault(type)] = value]

\* ---------------------------------------------------------- derived state
\* getDerivedStateFromProps with the stored preference read on every
\* derivation: a plausible slip
getDerivedStateFresh(p, st) ==
  IF defaultsRaises THEN st
  ELSE [lastValue |-> getLastValue(p.type),
        value |-> IF p.value.arr
                    THEN [arr |-> TRUE,
                          val |-> [i \in 1..Len(p.value.val) |->
                                     toAddress(p.value.val[i])]]
                    ELSE [arr |-> FALSE,
                          val |-> OrElse(toAddress(p.value.val), Undefined)]]

\* getDerivedStateFromProps: the next state. lastValue || getLastValue(type)
\* reads the store only when lastValue is falsy; an exception gives null,
\* which leaves the state as it is.
getDerivedStateFromProps(p, st) ==
  IF ~Truthy(st.lastValue) /\ defaultsRaises THEN st
  ELSE [lastValue |-> IF Truthy(st.lastValue) THEN st.lastValue
                      ELSE getLastValue(p.type),
        value |-> IF p.value.arr
                    THEN [arr |-> TRUE,
                          val |-> [i \in 1..Len(p.value.val) |->
                                     toAddress(p.value.val[i])]]
                    ELSE [arr |-> FALSE,
                          val |-> OrElse(toAddress(p.value.val), Undefined)]]

\* -------------------------------------------------------- filtered bucket
\* getFiltered with the header guard (!!value) left out: a plausible slip
getFilteredKeepsHeaders(p) ==
  IF ~p.optionsAll.given THEN <<>>
  ELSE LET keep(o) ==
             ~p.filter.given \/ o.value = Null \/
               (IF p.withExclude
                  THEN o.value \notin Range(p.filter.values)
                  ELSE o.value \in Range(p.filter.values))
       IN SelectSeq(dedupe(p.optionsAll.buckets[TypeOrDefault(p.type)]), keep)

\* getFiltered
getFiltered(p) ==
  IF ~p.optionsAll.given THEN <<>>
  ELSE LET keep(o) ==
             ~p.filter.given \/
               (Truthy(o.value) /\
                 (IF p.withExclude
                    THEN o.value \notin Range(p.filter.values)
                    ELSE o.value \in Range(p.filter.values)))
       IN SelectSeq(dedupe(p.optionsAll.buckets[TypeOrDefault(p.type)]), keep)

\* hasValue: test && test.toString() of a string is the string itself
hasValue(p, test) ==
  \E i \in 1..Len(getFiltered(p)) : getFiltered(p)[i].value = test

\* getLastOptionValue: the final entry, Undefined when there is none
getLastOptionValue(p) ==
  LET available == getFiltered(p)
  IN IF Len(available) # 0 THEN available[Len(available)].value ELSE Undefined

\* ------------------------------------------------------------------ render
\* hasOptions with the explicit list left out: a plausible slip
hasOptionsBucketOnly(p) ==
  p.optionsAll.given /\ Len(p.optionsAll.buckets[TypeOrDefault(p.type)]) # 0

\* hasOptions: the explicit list or the raw bucket of the type tag is not empty
hasOptions(p) ==
  \/ (p.options.given /\ Len(p.options.list) # 0)
  \/ (p.optionsAll.given /\
        Len(p.optionsAll.buckets[TypeOrDefault(p.type)]) # 0)

\* the argument of transformToAddress with lastValue taken unchecked: a
\* plausible slip
chosenValueAnyLast(p, st) ==
  IF p.isDisabled \/
       (Truthy(p.defaultValue) /\
          (hasValue(p, p.defaultValue) \/ TypeOrDefault(p.type) = "allPlus"))
    THEN p.defaultValue
    ELSE IF Truthy(st.lastValue) THEN st.lastValue
    ELSE getLastOptionValue(p)

\* the argument of transformToAddress with a fall-through to the next rule
\* when a rule's value does not canonicalize: a plausible slip
chosenValueFallsThrough(p, st) ==
  IF (p.isDisabled \/
        (Truthy(p.defaultValue) /\
           (hasValue(p, p.defaultValue) \/ TypeOrDefault(p.type) = "allPlus")))
       /\ Truthy(toAddress(p.defaultValue))
    THEN p.defaultValue
    ELSE IF hasValue(p, st.lastValue) /\ Truthy(toAddress(st.lastValue))
      THEN st.lastValue
      ELSE getLastOptionValue(p)

\* the argument of transformToAddress in render
chosenValue(p, st) ==
  IF p.isDisabled \/
       (Truthy(p.defaultValue) /\
          (hasValue(p, p.defaultValue) \/ TypeOrDefault(p.type) = "allPlus"))
    THEN p.defaultValue
    ELSE IF hasValue(p, st.lastValue) THEN st.lastValue
    ELSE getLastOptionValue(p)

actualValue(p, st) == transformToAddress(chosenValue(p, st))

\* addActual that always appends: a plausible slip
addActualAlways(p, value) == Append(getFiltered(p), createOption(value))

\* addActual
addActual(p, value) ==
  LET base == getFiltered(p)
  IN IF hasValue(p, value) THEN base ELSE Append(base, createOption(value))

\* actualOptions with the disabled branch rendering the bucket too: a
\* plausible slip
actualOptionsWithBucket(p, st) ==
  IF p.options.given
    THEN dedupe([i \in 1..Len(p.options.list) |-> createItem(p.options.list[i])])
    ELSE IF Truthy(actualValue(p, st))
      THEN addActual(p, actualValue(p, st))
      ELSE getFiltered(p)

\* actualOptions with the explicit list taken as it is: a plausible slip
actualOptionsNoDedupe(p, st) ==
  IF p.options.given
    THEN [i \in 1..Len(p.options.list) |-> createItem(p.options.list[i])]
    ELSE IF p.isDisabled /\ Truthy(actualValue(p, st))
      THEN <<createOption(actualValue(p, st))>>
      ELSE IF Truthy(actualValue(p, st))
        THEN addActual(p, actualValue(p, st))
        ELSE getFiltered(p)

\* actualOptions in render
actualOptions(p, st) ==
  IF p.options.given
    THEN dedupe([i \in 1..Len(p.options.list) |-> createItem(p.options.list[i])])
    ELSE IF p.isDisabled /\ Truthy(actualValue(p, st))
      THEN <<createOption(actualValue(p, st))>>
      ELSE IF Truthy(actualValue(p, st))
        THEN addActual(p, actualValue(p, st))
        ELSE getFiltered(p)

MULTI_DEFAULT == [arr |-> TRUE, val |-> <<>>]

\* render: the notice, or what the selection widget is handed
render(p, st) ==
  IF ~hasOptions(p) /\ ~p.isDisabled
    THEN [kind |-> "render", notice |-> TRUE, actualValue |-> Null,
          options |-> <<>>, defaultValue |-> Undefined, value |-> NoValue]
    ELSE [kind |-> "render", notice |-> FALSE,
          actualValue |-> actualValue(p, st),
          options |-> actualOptions(p, st),
          defaultValue |->
            IF p.isMultiple \/ st.value # NoValue THEN Undefined
            ELSE actualValue(p, st),
          value |->
            IF p.isMultiple /\ ~st.value.arr /\ ~Truthy(st.value.val)
              THEN MULTI_DEFAULT ELSE st.value]

\* ---------------------------------------------------------------- handlers
\* the argument of the onChange callback, with the bucket test left out: a
\* plausible slip
changeReportAnyValid(p, address) ==
  IF Truthy(address) /\ isAddress(address)
    THEN transformToAccountId(address) ELSE Null

\* the argument of the onChange callback
changeReport(p, address) ==
  IF Truthy(address) /\
       (hasValue(p, address) \/ (p.type = "allPlus" /\ isAddress(address)))
    THEN transformToAccountId(address) ELSE Null

\* the argument of the onChangeMulti callback with the filter step left out:
\* a plausible slip
multiReportUnfiltered(addresses) ==
  [i \in 1..Len(addresses) |-> transformToAccountId(addresses[i])]

\* the argument of the onChangeMulti callback
multiReport(addresses) ==
  LET kept(address) == Truthy(address)
  IN SelectSeq([i \in 1..Len(addresses) |->
                  transformToAccountId(addresses[i])], kept)

\* keyring.saveRecent(address).option
saveRecentOption(address) == createOptionItem(address, KeyringName(address))

\* the matches of onSearch before the fallback
searchMatches(filteredOptions, query) ==
  LET queryLower == toLowerCase(query)
      isMatch(item) ==
        Truthy(item.value) /\
          (includes(toLowerCase(item.name), queryLower) \/
           includes(toLowerCase(item.value), queryLower))
  IN SelectSeq(filteredOptions, isMatch)

\* searchAdds with the isInput test left out: a plausible slip
searchAddsInputIgnored(p, filteredOptions, query) ==
  Len(searchMatches(filteredOptions, query)) = 0 /\
    Truthy(transformToAccountId(query))

\* does the fallback of onSearch add the typed address?
searchAdds(p, filteredOptions, query) ==
  p.isInput /\ Len(searchMatches(filteredOptions, query)) = 0 /\
    Truthy(transformToAccountId(query))

\* the result of onSearch
onSearchResult(p, filteredOptions, _query) ==
  LET query == trim(_query)
      found == searchMatches(filteredOptions, query)
      matches == IF searchAdds(p, filteredOptions, query)
                   THEN Append(found, saveRecentOption(transformToAccountId(query)))
                   ELSE found
      kept == {i \in 1..Len(matches) :
                 matches[i].value # Null \/
                   (i # Len(matches) /\ Truthy(matches[i + 1].value))}
      nth(S, k) == CHOOSE i \in S : Cardinality({j \in S : j < i}) = k - 1
  IN [k \in 1..Cardinality(kept) |-> matches[nth(kept, k)]]

\* ----------------------------------------------------------------- actions
\* A React update (the mount is the first one): the parent hands props p,
\* getDerivedStateFromProps gives the next state, render follows.
Update(p) ==
  /\ props' = p
  /\ state' = getDerivedStateFromProps(p, state)
  /\ out' = render(p, state')
  /\ UNCHANGED <<store, recent>>

\* The widget is on screen: the component was rendered, and not as the notice.
widgetShown == out.kind # "init" /\ ~render(props, state).notice

\* onChange that persists whether or not a filter is set: a plausible slip
OnChangeAlwaysPersists(address) ==
  /\ widgetShown
  /\ ~props.isMultiple
  /\ ~defaultsRaises
  /\ store' = setLastValue(props.type, address)
  /\ out' = [kind |-> "change", address |-> address,
             report |-> changeReport(props, address)]
  /\ UNCHANGED <<props, state, recent>>

\* onChange(address): the widget's change callback in single-select mode
OnChange(address) ==
  /\ widgetShown
  /\ ~props.isMultiple
  /\ IF ~props.filter.given /\ defaultsRaises
       THEN \* setLastValue raises and nothing catches it
            /\ out' = [kind |-> "raised", address |-> address]
            /\ UNCHANGED store
       ELSE /\ store' = IF ~props.filter.given
                          THEN setLastValue(props.type, address)
                          ELSE store
            /\ out' = [kind |-> "change", address |-> address,
                       report |-> changeReport(props, address)]
  /\ UNCHANGED <<props, state, recent>>

\* onChangeMulti(addresses): the widget's change callback in multi-select mode
OnChangeMulti(addresses) ==
  /\ widgetShown
  /\ props.isMultiple
  /\ out' = [kind |-> "multi", addresses |-> addresses,
             report |-> multiReport(addresses)]
  /\ UNCHANGED <<props, state, store, recent>>

\* onSearch(filteredOptions, query): the widget's search callback, called
\* with the options the widget holds
OnSearch(_query) ==
  /\ widgetShown
  /\ LET filteredOptions == actualOptions(props, state)
     IN /\ out' = [kind |-> "search", query |-> _query,
                   options |-> filteredOptions,
                   result |-> onSearchResult(props, filteredOptions, _query)]
        /\ recent' = IF searchAdds(props, filteredOptions, trim(_query))
                       THEN recent \cup {transformToAccountId(trim(_query))}
                       ELSE recent
  /\ UNCHANGED <<props, state, store>>

\* ------------------------------------------------------------------ inputs
ItemA == createOptionItem(AddrA, KeyringName(AddrA))
ItemB == createOptionItem(AddrB, KeyringName(AddrB))
ItemC == createOptionItem(AddrC, KeyringName(AddrC))

\* the registry snapshot of the component's lifecycle
RegistryBucket == <<Header, ItemA, ItemB>>

BaseProps ==
  [type |-> "undefined", filter |-> NoFilter, withExclude |-> FALSE,
   isDisabled |-> FALSE, isMultiple |-> FALSE, isInput |-> TRUE,
   defaultValue |-> Undefined, value |-> [arr |-> FALSE, val |-> HexC],
   options |-> NoOptions,
   optionsAll |-> [given |-> TRUE,
                   buckets |-> [t \in TypeTags |-> RegistryBucket]]]

\* filter and withExclude: no filter, include AddrB, exclude AddrB
FilterModes ==
  {<<NoFilter, FALSE>>,
   <<[given |-> TRUE, values |-> <<AddrB>>], FALSE>>,
   <<[given |-> TRUE, values |-> <<AddrB>>], TRUE>>}

\* the props of the lifecycle: type tag, filter and mode change
SpecProps ==
  {[BaseProps EXCEPT !.type = t, !.filter = f[1], !.withExclude = f[2],
                     !.isMultiple = m] :
     t \in TypeProps, f \in FilterModes, m \in BOOLEAN}

\* what the user picks or types
ChangeAddrs == {Empty, AddrA, HexC, BadAddr}
MultiAddrs == {Empty, AddrA, HexC, BadAddr}
SpecMultiValues == {<<>>, <<HexC, BadAddr, AddrA>>}
Queries ==
  {Empty, <<" ">>, <<"a">>, <<"5", "B">>, <<" ", "5", "C", " ">>, HexC,
   BadAddr}
SpecQueries == {<<"a">>, <<" ", "5", "C", " ">>}

InitialState == [lastValue |-> Undefined, value |-> NoValue]

StoredB == [kind |-> "ok", defaults |-> [NoDefaults EXCEPT ![DEFAULT_TYPE] = AddrB]]

\* ----------------------------------------------------------- specification
\* The component's lifecycle over a store that is absent or holds a
\* { defaults } structure.
Init ==
  /\ props \in SpecProps
  /\ state = InitialState
  /\ store \in {StoreAbsent, StoredB}
  /\ recent = {}
  /\ out = [kind |-> "init"]

Next ==
  \/ \E p \in SpecProps : Update(p)
  \/ \E address \in ChangeAddrs : OnChange(address)
  \/ \E addresses \in SpecMultiValues : OnChangeMulti(addresses)
  \/ \E query \in SpecQueries : OnSearch(query)

Spec == Init /\ [][Next]_vars

\* A re-render: the parent renders again with the props unchanged.
Rerender == Update(props)

\* ------------------------------------------------- the widget's callbacks
\* Explicit option lists, queries and multi-select values of every shape,
\* under props that stay as they are.
Header2 == [key |-> <<"g">>, value |-> Null, name |-> <<"B", "c">>]
\* an entry with the key of ItemA and another name
ItemA2 == [key |-> AddrA, value |-> AddrA, name |-> <<"z">>]

WidgetEntries == {Header, Header2, ItemA, ItemA2, ItemB}

WidgetProps ==
  {[BaseProps EXCEPT !.options = [given |-> TRUE, list |-> l],
                     !.isInput = i] :
     l \in SeqsUpTo(WidgetEntries, MaxOptions), i \in BOOLEAN}

InitWidget ==
  /\ props \in WidgetProps
  /\ state = InitialState
  /\ store = StoreAbsent
  /\ recent = {}
  /\ out = [kind |-> "init"]

NextWidget ==
  \/ Rerender
  \/ \E query \in Queries : OnSearch(query)

SpecWidget == InitWidget /\ [][NextWidget]_vars

\* Multi-select values of every shape.
MultiProps ==
  {[BaseProps EXCEPT !.type = t, !.filter = f[1], !.withExclude = f[2],
                     !.isMultiple = TRUE] :
     t \in TypeProps, f \in FilterModes}

InitMulti ==
  /\ props \in MultiProps
  /\ state = InitialState
  /\ store = StoreAbsent
  /\ recent = {}
  /\ out = [kind |-> "init"]

NextMulti ==
  \/ Rerender
  \/ \E addresses \in SeqsUpTo(MultiAddrs, MaxMulti) : OnChangeMulti(addresses)

SpecMulti == InitMulti /\ [][NextMulti]_vars

\* ------------------------------------------------------------- the render
\* Every bucket, filter, default value, stored last value and type tag, each
\* mounted and rendered.
RenderEntries == {Header, ItemA, ItemB}

RenderFilterModes ==
  FilterModes \cup
    {<<[given |-> TRUE, values |-> <<>>], FALSE>>,
     <<[given |-> TRUE, values |-> <<AddrA, AddrC>>], FALSE>>}

RenderOptionsAll ==
  {[given |-> FALSE, buckets |-> [t \in TypeTags |-> <<>>]]} \cup
  {[given |-> TRUE, buckets |-> [t \in TypeTags |-> b]] :
     b \in SeqsUpTo(RenderEntries, MaxBucket)}

RenderProps ==
  {[BaseProps EXCEPT !.type = t, !.filter = f[1], !.withExclude = f[2],
                     !.isDisabled = d, !.isMultiple = m, !.defaultValue = v,
                     !.options = o, !.optionsAll = all] :
     t \in TypeProps, f \in RenderFilterModes, d \in BOOLEAN, m \in BOOLEAN,
     v \in {Undefined, AddrA, AddrC, HexC, BadAddr},
     o \in {NoOptions, [given |-> TRUE, list |-> <<>>],
            [given |-> TRUE, list |-> <<ItemA, ItemA2, ItemC>>]},
     all \in RenderOptionsAll}

InitRender ==
  /\ props \in RenderProps
  /\ state = InitialState
  /\ store \in {StoreAbsent} \cup
       {[kind |-> "ok", defaults |-> [t \in TypeTags |-> v]] :
          v \in {AddrB, AddrC}}
  /\ recent = {}
  /\ out = [kind |-> "init"]

NextRender == Rerender

SpecRender == InitRender /\ [][NextRender]_vars

\* ------------------------------------------------------------ any store
\* The lifecycle over every content of the store: absent, a { defaults }
\* structure, or a structure without the defaults mapping.
StoreProps ==
  {[BaseProps EXCEPT !.type = t, !.filter = f[1], !.withExclude = f[2]] :
     t \in TypeProps, f \in FilterModes}

InitStore ==
  /\ props \in StoreProps
  /\ state = InitialState
  /\ store \in {StoreAbsent, StoredB, StoreMalformed}
  /\ recent = {}
  /\ out = [kind |-> "init"]

NextStore ==
  \/ \E p \in StoreProps : Update(p)
  \/ \E address \in ChangeAddrs : OnChange(address)

SpecStore == InitStore /\ [][NextStore]_vars

\* ================================================================== claims
\* What the claims speak of, stated apart from the operators above.
tagOf(p) == IF p.type = "allPlus" THEN "allPlus" ELSE "all"

\* the canonical address a string spells, Null when it spells none
canonical(a) ==
  IF a \in {Null, Undefined, Empty} \/ decodeAddress(a) = "" THEN Null
  ELSE <<"5", decodeAddress(a)>>

\* a is the address of an option of the filtered bucket
inFilteredBucket(p, a) ==
  \E o \in Range(getFiltered(p)) : o.value # Null /\ o.value = a

noDuplicateKeys(options) ==
  \A i, j \in 1..Len(options) : i # j => options[i].key # options[j].key

\* C1: a single-select change(addr) reports the canonical address of addr
\* exactly when addr is not empty and (addr is the address of an option of
\* the filtered bucket, or the type tag is "allPlus" and addr is a valid
\* address); otherwise it reports null.
C1_ChangeReport ==
  out.kind = "change" =>
    LET a == out.address
        accepted == a # Empty /\
                      (inFilteredBucket(props, a) \/
                         (tagOf(props) = "allPlus" /\ canonical(a) # Null))
    IN /\ accepted => (out.report = canonical(a) /\ out.report # Null)
       /\ ~accepted => out.report = Null

\* a typed hex address outside the filtered bucket is reported in canonical
\* form under "allPlus", with a filter set
C1_Witness ==
  /\ out.kind = "change" /\ out.address = HexC /\ out.report = AddrC
  /\ props.filter.given

\* a single-select change of a valid address, made with no filter, was the
\* last operation
changedUnfiltered ==
  out.kind = "change" /\ ~props.filter.given /\ canonical(out.address) # Null

\* the step is a state derivation for the type tag of the change
derivesSameTag == out'.kind = "render" /\ tagOf(props') = tagOf(props)

\* C2 as stated: after a single-select change(a) of a valid address with no
\* filter, the persisted preference of the current type tag is a, and the
\* next state derivation for that tag resolves lastValue = a, whatever the
\* component resolved before.
C2_Original ==
  [][changedUnfiltered =>
       /\ store.kind = "ok" /\ store.defaults[tagOf(props)] = out.address
       /\ derivesSameTag => state'.lastValue = out.address]_vars

\* C2, amended: after a single-select change(a) of a valid address with no
\* filter, the persisted preference of the current type tag is a; the next
\* state derivation for that tag resolves lastValue = a when the component
\* held no lastValue, and keeps the lastValue it held otherwise.
C2_PersistThenResolve ==
  [][changedUnfiltered =>
       /\ store.kind = "ok" /\ store.defaults[tagOf(props)] = out.address
       /\ derivesSameTag =>
            state'.lastValue = IF state.lastValue \in {Undefined, Empty}
                                 THEN out.address
                                 ELSE state.lastValue]_vars

\* the component resolved AddrB on its mount, AddrA was then selected with no
\* filter and persisted, and the derivation that followed kept AddrB
C2_Witness ==
  /\ out.kind = "render" /\ tagOf(props) = "all"
  /\ store.kind = "ok" /\ store.defaults["all"] = AddrA
  /\ state.lastValue = AddrB

\* the first position of key k in options
firstIndex(options, k) ==
  CHOOSE i \in 1..Len(options) :
    options[i].key = k /\ \A j \in 1..(i - 1) : options[j].key # k

\* C3: dedupe returns exactly one entry for each key of its input, the first
\* entry with that key, in the input's order; applied twice it equals
\* applied once.
C3_DedupeFirstPerKey ==
  (out.kind = "render" /\ props.options.given) =>
    LET in == props.options.list
        res == out.options
    IN /\ {res[i].key : i \in 1..Len(res)} = {in[i].key : i \in 1..Len(in)}
       /\ noDuplicateKeys(res)
       /\ \A i \in 1..Len(res) : res[i] = in[firstIndex(in, res[i].key)]
       /\ \A i, j \in 1..Len(res) :
            i < j => firstIndex(in, res[i].key) < firstIndex(in, res[j].key)
       /\ dedupe(res) = res

\* a list whose first and last entries share a key, with another between
C3_Witness ==
  /\ out.kind = "render"
  /\ props.options.list = <<ItemA, ItemB, ItemA2>>
  /\ out.options = <<ItemA, ItemB>>

\* C4: the options handed to the selection widget never hold two entries
\* with the same key, whichever branch produced them.
C4_NoDuplicateKeys ==
  (out.kind = "render" /\ ~out.notice) => noDuplicateKeys(out.options)

\* a bucket with a repeated entry, and the active value appended to it
C4_Witness ==
  /\ out.kind = "render" /\ ~props.options.given
  /\ props.optionsAll.given
  /\ props.optionsAll.buckets[tagOf(props)] = <<ItemA, ItemB, ItemA>>
  /\ out.options = <<ItemA, ItemB, ItemC>>

\* rule (a) of the active value applies
defaultApplies(p) ==
  p.isDisabled \/
    (p.defaultValue \notin {Null, Undefined, Empty} /\
       (inFilteredBucket(p, p.defaultValue) \/ tagOf(p) = "allPlus"))

\* C5: the active value is (a) the default value when the control is
\* disabled, or a default value is given that is in the filtered bucket or
\* the type tag is "allPlus"; (b) otherwise lastValue when it is the address
\* of an option of the filtered bucket; (c) otherwise the address of the
\* final entry of the filtered bucket.
C5_ActiveValuePrecedence ==
  (out.kind = "render" /\ ~out.notice) =>
    LET bucket == getFiltered(props)
    IN /\ defaultApplies(props) =>
            out.actualValue = canonical(props.defaultValue)
       /\ (~defaultApplies(props) /\ inFilteredBucket(props, state.lastValue))
            => out.actualValue = state.lastValue
       /\ (~defaultApplies(props) /\ ~inFilteredBucket(props, state.lastValue))
            => out.actualValue =
                 IF bucket = <<>> THEN Null
                 ELSE canonical(bucket[Len(bucket)].value)

\* the filter removed the stored lastValue: the final entry decides
C5_Witness ==
  /\ out.kind = "render" /\ ~out.notice /\ ~defaultApplies(props)
  /\ state.lastValue = AddrB /\ ~inFilteredBucket(props, AddrB)
  /\ props.optionsAll.buckets[tagOf(props)] = <<ItemB, ItemA, Header>>
  /\ props.filter.given /\ out.actualValue = AddrA

\* the control is disabled, with a valid default value that the bucket does
\* not hold, and no explicit option list
disabledWithAbsentDefault ==
  /\ out.kind = "render" /\ props.isDisabled /\ ~props.options.given
  /\ canonical(props.defaultValue) # Null
  /\ \A o \in Range(props.optionsAll.buckets[tagOf(props)]) :
       o.value \notin {props.defaultValue, canonical(props.defaultValue)}

\* C6 as stated: disabled with a default value absent from the bucket, the
\* active value is the default value and the rendered options are the
\* entries of the filtered bucket followed by one synthesized entry for it.
C6_Original ==
  disabledWithAbsentDefault =>
    /\ out.actualValue = canonical(props.defaultValue)
    /\ out.options =
         Append(getFiltered(props),
                createOptionItem(canonical(props.defaultValue),
                                 KeyringName(canonical(props.defaultValue))))

\* C6, amended: disabled with a valid default value absent from the bucket
\* and no explicit option list, the active value is the default value in
\* canonical form and the rendered options are exactly one synthesized entry
\* for it, without the entries of the bucket.
C6_DisabledSingleOption ==
  disabledWithAbsentDefault =>
    /\ out.actualValue = canonical(props.defaultValue)
    /\ Len(out.options) = 1
    /\ out.options[1].key = canonical(props.defaultValue)
    /\ out.options[1].value = canonical(props.defaultValue)

\* disabled, default AddrC, a bucket of two accounts: one option is rendered
C6_Witness ==
  /\ disabledWithAbsentDefault /\ props.defaultValue = AddrC
  /\ ~props.filter.given
  /\ props.optionsAll.buckets[tagOf(props)] = <<ItemA, ItemB>>
  /\ out.options = <<ItemC>>

\* the trimmed query occurs, in any case, in no selectable option's name or
\* address
matchesNothing(options, query) ==
  \A o \in Range(options) :
    o.value # Null =>
      /\ ~includes(toLowerCase(o.name), toLowerCase(trim(query)))
      /\ ~includes(toLowerCase(o.value), toLowerCase(trim(query)))

\* C7: for a search whose trimmed query matches no option: with
\* input-as-address mode on and a query that canonicalizes, the result is
\* exactly the synthesized option of the canonical address, which is
\* registered as recent; with the mode off, or a query that does not
\* canonicalize, the result is empty and nothing is registered.
C7_SearchFallback ==
  [][(out'.kind = "search" /\ out' # out /\
        matchesNothing(out'.options, out'.query)) =>
       LET address == canonical(trim(out'.query))
       IN IF props.isInput /\ address # Null
            THEN /\ Len(out'.result) = 1
                 /\ out'.result[1].value = address
                 /\ out'.result[1].key = address
                 /\ address \in recent'
            ELSE /\ out'.result = <<>>
                 /\ recent' = recent]_vars

\* " 5C " typed over options that do not hold AddrC: one synthesized match
C7_Witness ==
  /\ out.kind = "search" /\ out.query = <<" ", "5", "C", " ">>
  /\ props.isInput
  /\ out.options = <<Header, ItemA, ItemB>>
  /\ Len(out.result) = 1 /\ out.result[1].value = AddrC
  /\ AddrC \in recent

\* the canonical forms of the elements that canonicalize, in order
RECURSIVE canonicalOnes(_)
canonicalOnes(addresses) ==
  IF addresses = <<>> THEN <<>>
  ELSE IF canonical(Head(addresses)) = Null
    THEN canonicalOnes(Tail(addresses))
    ELSE <<canonical(Head(addresses))>> \o canonicalOnes(Tail(addresses))

\* C8: a multi-select change(addrs) reports the canonical forms of the
\* elements of addrs that canonicalize, in their order; empty and malformed
\* elements are dropped, and the callback does not raise.
C8_MultiReport ==
  out.kind = "multi" =>
    /\ out.report = canonicalOnes(out.addresses)
    /\ \A i \in 1..Len(out.report) : out.report[i] \notin {Null, Undefined}

\* a malformed element dropped before a hex one, which is reported canonical
C8_Witness ==
  /\ out.kind = "multi" /\ out.addresses = <<Empty, BadAddr, HexC>>
  /\ out.report = <<AddrC>>

\* C9: for every content of the store (absent, a { defaults } structure, a
\* structure without defaults) no operation fails: a state derivation still
\* normalizes the raw value, and a single-select change with no filter
\* completes, persists the address and reports upward.
C9_NoStoreFailure ==
  /\ out.kind # "raised"
  /\ out.kind = "render" =>
       state.value = [arr |-> FALSE, val |-> canonical(props.value.val)]
  /\ (out.kind = "change" /\ ~props.filter.given) =>
       (store.kind = "ok" /\ store.defaults[tagOf(props)] = out.address)

\* the entries of the raw bucket of the type tag, deduplicated
rawBucket(p) == dedupe(p.optionsAll.buckets[tagOf(p)])

\* C10 as stated: the filtered bucket is the deduplicated bucket in its
\* order, where with no filter every entry is kept, in include mode a
\* selectable entry is kept iff its address is a filter value, in exclude
\* mode iff it is none, and a section header is kept in either mode.
C10_Original ==
  (out.kind = "render" /\ props.optionsAll.given) =>
    LET kept(o) ==
          \/ ~props.filter.given
          \/ o.value = Null
          \/ (o.value # Null /\
               (o.value \in Range(props.filter.values)) = ~props.withExclude)
    IN getFiltered(props) = SelectSeq(rawBucket(props), kept)

\* C10, amended: as stated, except that with a filter set (in either mode)
\* every section header is removed.
C10_FilteredBucket ==
  (out.kind = "render" /\ props.optionsAll.given) =>
    LET kept(o) ==
          \/ ~props.filter.given
          \/ (o.value # Null /\
               (o.value \in Range(props.filter.values)) = ~props.withExclude)
    IN getFiltered(props) = SelectSeq(rawBucket(props), kept)

\* a header before two accounts, AddrB excluded: the header is gone too
C10_Witness ==
  /\ out.kind = "render" /\ ~out.notice /\ ~props.options.given
  /\ props.optionsAll.buckets[tagOf(props)] = <<Header, ItemA, ItemB>>
  /\ props.filter.given /\ props.withExclude
  /\ props.filter.values = <<AddrB>>
  /\ getFiltered(props) = <<ItemA>>
  /\ props.defaultValue = Undefined /\ out.options = <<ItemA>>

\* the raw bucket of the type tag holds no entry (or no snapshot arrived)
bucketEmpty(p) ==
  ~p.optionsAll.given \/ p.optionsAll.buckets[tagOf(p)] = <<>>

\* C11 as stated: the notice is rendered in place of the selection widget
\* exactly when the bucket of the current type tag is empty and the control
\* is not disabled.
C11_Original ==
  out.kind = "render" =>
    (out.notice <=> (bucketEmpty(props) /\ ~props.isDisabled))

\* C11, amended: the notice is rendered exactly when the bucket of the
\* current type tag is empty, no non-empty explicit option list is given and
\* the control is not disabled; so never when the control is disabled and
\* never when the bucket is not empty.
C11_NoticeWhenNoOptions ==
  out.kind = "render" =>
    /\ out.notice <=>
         (bucketEmpty(props) /\ ~props.isDisabled /\
            (~props.options.given \/ props.options.list = <<>>))
    /\ out.notice => (~props.isDisabled /\ bucketEmpty(props))

\* an empty bucket, not disabled, and an explicit list: the widget is shown
C11_Witness ==
  /\ out.kind = "render" /\ ~out.notice
  /\ props.optionsAll.given /\ bucketEmpty(props) /\ ~props.isDisabled
  /\ props.options.list = <<ItemA, ItemA2, ItemC>>
  /\ out.options = <<ItemA, ItemC>>

\* a selectable option that the trimmed query matches by name or address
survivesQuery(o, query) ==
  /\ o.value # Null
  /\ \/ includes(toLowerCase(o.name), toLowerCase(trim(query)))
     \/ includes(toLowerCase(o.value), toLowerCase(trim(query)))

\* C12: in the result of a search a section header of the supplied options
\* is retained if and only if it is immediately followed by a selectable
\* entry that survives the query match.
C12_HeaderKeptBeforeMatch ==
  out.kind = "search" =>
    \A i \in 1..Len(out.options) :
      out.options[i].value = Null =>
        ((out.options[i] \in Range(out.result)) <=>
           (i < Len(out.options) /\
              survivesQuery(out.options[i + 1], out.query)))

\* C13 as stated: the persisted last value of a type tag changes only to an
\* address that a single-select change reported upward as a selection; a
\* change that reports "no selection" does not write the preference.
C13_Original ==
  [][\A t \in TypeTags :
       store'.defaults[t] # store.defaults[t] =>
         (out'.kind = "change" /\ out'.report # Null /\
            store'.defaults[t] = out'.address)]_vars

\* C13, amended: the persisted last value of a type tag changes only to the
\* address handed to a single-select change made with no filter set, under
\* the current type tag, whether that change reported a selection or "no
\* selection"; a change that reports "no selection" leaves the preference
\* unwritten only when a filter is set.
C13_PersistedIsChanged ==
  [][/\ \A t \in TypeTags :
          store'.defaults[t] # store.defaults[t] =>
            (out'.kind = "change" /\ t = tagOf(props) /\
               store'.defaults[t] = out'.address)
     /\ (out'.kind = "change" /\ out' # out /\ ~props.filter.given) =>
          store'.defaults[tagOf(props)] = out'.address]_vars

\* a malformed address, picked with no filter: "no selection" is reported
\* and the address is persisted
C13_Witness ==
  /\ out.kind = "change" /\ out.address = BadAddr /\ out.report = Null
  /\ ~props.filter.given
  /\ store.kind = "ok" /\ store.defaults[tagOf(props)] = BadAddr

\* C14: the persisted preference is written only by a single-select change
\* made while no filter is set: a single-select change with a filter set, a
\* multi-select change, a search, a state derivation and a render leave the
\* store as it is.
C14_OnlyUnfilteredChangeWrites ==
  [][(\/ out'.kind \in {"render", "multi", "search"}
      \/ (out'.kind = "change" /\ props.filter.given)) =>
       store' = store]_vars

\* AddrA picked while AddrB is excluded by a filter: reported, not persisted
C14_Witness ==
  /\ out.kind = "change" /\ out.address = AddrA /\ out.report = AddrA
  /\ props.filter.given /\ props.withExclude
  /\ store = StoreAbsent

\* the address of the final entry of the filtered bucket, Null without one
finalEntryAddress(p) ==
  IF getFiltered(p) = <<>> THEN Null
  ELSE canonical(getFiltered(p)[Len(getFiltered(p))].value)

\* the value of the rule that applies: (a) default, (b) lastValue, (c) final
ruleValue(p, st) ==
  IF defaultApplies(p) THEN canonical(p.defaultValue)
  ELSE IF inFilteredBucket(p, st.lastValue) THEN canonical(st.lastValue)
  ELSE finalEntryAddress(p)

\* C15 as stated: the active value is the result of the first rule that
\* yields a non-empty canonical address; when a rule applies but its value
\* is absent or does not canonicalize, the next rule decides.
C15_Original ==
  (out.kind = "render" /\ ~out.notice) =>
    out.actualValue =
      IF defaultApplies(props) /\ canonical(props.defaultValue) # Null
        THEN canonical(props.defaultValue)
        ELSE IF inFilteredBucket(props, state.lastValue) /\
                  canonical(state.lastValue) # Null
          THEN canonical(state.lastValue)
          ELSE finalEntryAddress(props)

\* C15, amended: the active value is the canonical address of the first
\* rule that applies; when that rule's value is absent or does not
\* canonicalize (the control is disabled and no default value is given) the
\* active value is empty and no later rule decides.
C15_FirstApplicableRuleDecides ==
  (out.kind = "render" /\ ~out.notice) =>
    /\ out.actualValue = ruleValue(props, state)
    /\ (defaultApplies(props) /\ canonical(props.defaultValue) = Null)
         => out.actualValue = Null

\* disabled with no default value over a bucket that ends with AddrA, the
\* stored lastValue AddrB in it: the active value is empty
C15_Witness ==
  /\ out.kind = "render" /\ ~out.notice /\ props.isDisabled
  /\ props.defaultValue = Undefined /\ ~props.filter.given
  /\ props.optionsAll.given
  /\ props.optionsAll.buckets[tagOf(props)] = <<ItemB, ItemA>>
  /\ state.lastValue = AddrB
  /\ out.actualValue = Null

\* C16: the rendered options are the deduplicated explicit list when one is
\* given; otherwise one synthesized option for the active value when the
\* control is disabled and an active value exists; otherwise the filtered
\* bucket with a synthesized option for the active value appended when it
\* exists and is absent from the filtered bucket; otherwise the filtered
\* bucket as it is.
C16_RenderedOptions ==
  (out.kind = "render" /\ ~out.notice) =>
    LET active == out.actualValue
        synthesized == [key |-> active, value |-> active,
                        name |-> IF KeyringName(active) = Undefined
                                   THEN active ELSE KeyringName(active)]
        branch == IF props.options.given THEN "explicit"
                  ELSE IF props.isDisabled /\ active # Null THEN "single"
                  ELSE IF active # Null /\ ~inFilteredBucket(props, active)
                    THEN "appended"
                  ELSE "bucket"
    IN /\ branch = "explicit" =>
            /\ noDuplicateKeys(out.options)
            /\ \A i \in 1..Len(out.options) :
                 out.options[i] =
                   props.options.list[firstIndex(props.options.list,
                                                 out.options[i].key)]
            /\ {out.options[i].key : i \in 1..Len(out.options)} =
                 {o.key : o \in Range(props.options.list)}
       /\ branch = "single" => out.options = <<synthesized>>
       /\ branch = "appended" =>
            out.options = getFiltered(props) \o <<synthesized>>
       /\ branch = "bucket" => out.options = getFiltered(props)

\* the stored lastValue is not in the filtered bucket and the default value
\* AddrC is taken under "allPlus": AddrC is appended to the filtered bucket
C16_Witness ==
  /\ out.kind = "render" /\ ~out.notice /\ ~props.options.given
  /\ ~props.isDisabled /\ props.defaultValue = HexC
  /\ tagOf(props) = "allPlus"
  /\ props.filter.given /\ props.withExclude
  /\ props.optionsAll.buckets[tagOf(props)] = <<Header, ItemB, ItemA>>
  /\ out.options = <<ItemA, ItemC>>

\* C17: on every state derivation lastValue is the previous lastValue when
\* that is set (non-empty), and otherwise the persisted preference of the
\* current type tag; once set, lastValue never changes, whatever operation
\* follows.
C17_LastValueSticky ==
  [][/\ Truthy(state.lastValue) => state'.lastValue = state.lastValue
     /\ (~Truthy(state.lastValue) /\ out'.kind = "render") =>
          state'.lastValue = readOptions.defaults[tagOf(props')]
     /\ out'.kind # "render" => state' = state]_vars

\* lastValue was resolved to AddrB under "all"; the type tag is now
\* "allPlus", whose persisted preference was since written as AddrA, and
\* the state has been derived again
C17_Witness ==
  /\ out.kind = "render" /\ tagOf(props) = "allPlus"
  /\ store.kind = "ok" /\ store.defaults["allPlus"] = AddrA
  /\ store.defaults["all"] = AddrB
  /\ state.lastValue = AddrB

====
